---- MODULE Spec2Model ----
(***************************************************************************)
(* Model of assignLP-MPI.py: an MPI program of SIZE processes (ranks       *)
(* 0..SIZE-1, rank 0 the coordinating process) that partitions a directory *)
(* of trajectory files round-robin, assigns every frame of every file to   *)
(* its nearest generator, and merges the per-process results on rank 0.    *)
(*                                                                         *)
(* Python lists are modelled as TLA+ sequences: Python position k is TLA+  *)
(* index k+1.  Values stored in lists (local atom indices, order[], the    *)
(* generator index returned by argmin) keep their Python, 0-based, value.  *)
(*                                                                         *)
(* File names are the naturals 1..N; their numeric order stands for the    *)
(* lexicographic order of the paths.  glob.glob returns the names in       *)
(* directory order (dirList), which Python does not sort.                  *)
(*                                                                         *)
(* Read as written, the script cannot start: line 157 is not a valid       *)
(* assignment statement, '-pi'/'-li' are not valid optparse option strings,*)
(* options[...] subscripts an optparse.Values object, and line 99 calls    *)
(* assign with two of its four arguments.  The model reads those four      *)
(* places by their evident meaning (line 157 as the pair assignment        *)
(* pi, li = range(..), range(..); options.x for options['x']; assign       *)
(* called with pi and li) and follows every other statement as Python and  *)
(* numpy execute it.                                                       *)
(***************************************************************************)
EXTENDS Integers, Sequences, FiniteSets, TLC

\* ---------------------------------------------------------------- bounds
MaxProcs == 2      \* SIZE ranges over 1..MaxProcs
MaxFiles == 3      \* number of trajectory files in the directory, 0..MaxFiles
MaxFrames == 2     \* frames per trajectory file, 1..MaxFrames
NGens == 2         \* generators in the Gens file (pipeline runs)
NAtoms == 3        \* atoms of the topology, numbered 0..NAtoms-1
MaxGens == 2       \* generators, 1..MaxGens (runs of assign alone)
MaxDist == 2       \* RMSD values 0..MaxDist (runs of assign alone)

VARIABLES
    SIZE,            \* COMM.size
    options,         \* parsed command line: which options were supplied
    piFile, liFile,  \* contents of the protein / ligand index files
    dirList,         \* the directory's listing as glob.glob returns it
    frames,          \* frames[name]: n_frames of trajectory file name
    pc, err,         \* per process: position in the script, uncaught exception
    globbed,         \* per process: has run glob.glob on the directory (line 132)
    shards,          \* rank 0: the list of SIZE shards built at line 146
    scattered,       \* shards sent by rank 0's scatter, not yet received
    trajectories,    \* per process: its own shard (result of COMM.scatter)
    idx, pi, li,     \* per process: atom index lists of lines 153-160
    bound,           \* per process: the names pi and li have been assigned
    assignments, distances, n_frames,   \* per process: lists built by the loop
    arrived,         \* per process: has entered COMM.Barrier()
    gathered,        \* what each process contributed to the five gathers
    merge,           \* rank 0: locals of the merge block (lines 109-120)
    output,          \* Data/Assignments.h5 and .distances, and the console
    rmsds, result    \* argument and return value of assign (runs of assign alone)

vars == <<SIZE, options, piFile, liFile, dirList, frames, pc, err, globbed,
          shards, scattered, trajectories, idx, pi, li, bound, assignments,
          distances, n_frames, arrived, gathered, merge, output, rmsds, result>>

cfgVars == <<SIZE, options, piFile, liFile, dirList, frames>>
assignVars == <<rmsds, result>>

\* ------------------------------------------------------- Python helpers
Procs == 0..(SIZE - 1)

Range(s) == {s[k] : k \in 1..Len(s)}

Min2(a, b) == IF a < b THEN a ELSE b

MaxOfSeq(s) == CHOOSE m \in Range(s) : \A x \in Range(s) : x <= m

\* range(a, b) as a list
PyRange(a, b) == [k \in 1..(IF b > a THEN b - a ELSE 0) |-> a + k - 1]

\* s[i::step]: the elements at Python positions i, i+step, i+2*step, ...
Stride(s, i, step) ==
    [k \in 1..(IF i >= Len(s) THEN 0 ELSE (Len(s) - i + step - 1) \div step)
        |-> s[i + (k - 1) * step + 1]]

\* itertools.chain.from_iterable(ll), as a list
RECURSIVE Chain(_)
Chain(ll) == IF ll = <<>> THEN <<>> ELSE Head(ll) \o Chain(Tail(ll))

\* s.index(x): the first Python position holding x
ListIndex(s, x) == (CHOOSE k \in 1..Len(s) : s[k] = x /\ \A m \in 1..(k - 1) : s[m] # x) - 1

\* the sorted list of a set of integers (np.union1d returns its result sorted)
RECURSIVE SortedSeq(_)
SortedSeq(S) ==
    IF S = {} THEN <<>>
    ELSE LET m == CHOOSE x \in S : \A y \in S : x <= y
         IN <<m>> \o SortedSeq(S \ {m})

\* ------------------------------------------------------------- assign
\* column f of the gens x frames matrix
Column(m, f) == [i \in 1..Len(m) |-> m[i][f]]

\* numpy argmin over one column: a linear scan that replaces the best only on a
\* strictly smaller value, so the first occurrence of the minimum wins
RECURSIVE ArgMinScan(_, _, _)
ArgMinScan(col, i, best) ==
    IF i > Len(col) THEN best - 1
    ELSE ArgMinScan(col, i + 1, IF col[i] < col[best] THEN i ELSE best)

\* a variant that keeps the last occurrence of the minimum
RECURSIVE ArgMinScanLast(_, _, _)
ArgMinScanLast(col, i, best) ==
    IF i > Len(col) THEN best - 1
    ELSE ArgMinScanLast(col, i + 1, IF col[i] <= col[best] THEN i ELSE best)

ArgMinLast(col) == ArgMinScanLast(col, 2, 1)

ArgMin(col) == ArgMinScan(col, 2, 1)

RECURSIVE MinScan(_, _, _)
MinScan(col, i, best) ==
    IF i > Len(col) THEN best
    ELSE MinScan(col, i + 1, IF col[i] < best THEN col[i] ELSE best)

ColMin(col) == MinScan(col, 2, col[1])

\* assign (lines 79-83): m is rmsds after the loop over gens has filled its rows
Assign(m) ==
    LET n == Len(m[1])
    IN [assignment |-> [f \in 1..n |-> ArgMin(Column(m, f))],
        distance   |-> [f \in 1..n |-> ColMin(Column(m, f))]]

\* md.RMSD (external kernel): the distance of frame f of file name to generator g,
\* a fixed table with ties and with values that differ from file to file
RmsdOf(g, name, f) == ((g + 1) * name + f) % 3

\* rmsds as the loop of lines 81-82 fills it for trajectory file name
TrajRmsds(name) ==
    [g \in 1..NGens |-> [f \in 1..frames[name] |-> RmsdOf(g - 1, name, f - 1)]]

\* ------------------------------------------------------------ startup
Crash(p, e) == /\ pc' = [pc EXCEPT ![p] = "crashed"]
               /\ err' = [err EXCEPT ![p] = e]

Goto(p, l) == /\ pc' = [pc EXCEPT ![p] = l]
              /\ UNCHANGED err

\* a variant that cuts the list into consecutive runs of SIZE files
PartitionChunks(files, size) ==
    [i \in 1..size |-> SubSeq(files, (i - 1) * size + 1, Min2(i * size, Len(files)))]

\* line 146: [trajectories[i::SIZE] for i in range(SIZE)]
Partition(files, size) == [i \in 1..size |-> Stride(files, i - 1, size)]

\* lines 131-149: the glob, then on rank 0 the argument check and the partition.
\* With no -d, None + "/*." raises TypeError before glob is called.  With -d and no
\* -t, rank 0 evaluates parser.error, but parser is a local of parse_cmdln: the
\* NameError is not a SystemExit, so the handler with COMM.Abort() does not run.
Startup(p) ==
    /\ pc[p] = "start"
    /\ IF ~options.dir
       THEN /\ Crash(p, "TypeError")
            /\ UNCHANGED <<globbed, shards>>
       ELSE /\ globbed' = [globbed EXCEPT ![p] = TRUE]
            /\ IF p = 0 /\ ~options.topology
               THEN Crash(p, "NameError") /\ UNCHANGED shards
               ELSE /\ Goto(p, "setup")
                    /\ shards' = IF p = 0 THEN Partition(dirList, SIZE) ELSE shards
    /\ UNCHANGED <<cfgVars, assignVars, scattered, trajectories, idx, pi, li, bound,
                   assignments, distances, n_frames, arrived, gathered, merge, output>>

\* lines 151-162: topology, index lists, gens
Setup(p) ==
    /\ pc[p] = "setup"
    /\ IF ~options.topology
       THEN /\ Crash(p, "TopologyError")
            /\ UNCHANGED <<idx, pi, li, bound>>
       ELSE /\ Goto(p, "scatter")
            /\ IF options.indices
               THEN /\ idx' = [idx EXCEPT ![p] = SortedSeq(piFile \cup liFile)]
                    /\ pi' = [pi EXCEPT ![p] = PyRange(0, Cardinality(piFile))]
                    /\ li' = [li EXCEPT ![p] =
                                PyRange(Cardinality(piFile),
                                        Cardinality(piFile) + Cardinality(liFile))]
                    /\ bound' = [bound EXCEPT ![p] = TRUE]
               ELSE /\ idx' = [idx EXCEPT ![p] = PyRange(0, NAtoms)]
                    /\ UNCHANGED <<pi, li, bound>>
    /\ UNCHANGED <<cfgVars, assignVars, globbed, shards, scattered, trajectories,
                   assignments, distances, n_frames, arrived, gathered, merge, output>>

\* line 164 on rank 0: one shard to every process
ScatterRoot ==
    /\ pc[0] = "scatter"
    /\ scattered' = {[to |-> q, shard |-> shards[q + 1]] : q \in Procs \ {0}}
    /\ trajectories' = [trajectories EXCEPT ![0] = shards[1]]
    /\ Goto(0, "main")
    /\ UNCHANGED <<cfgVars, assignVars, globbed, shards, idx, pi, li, bound,
                   assignments, distances, n_frames, arrived, gathered, merge, output>>

\* line 164 on the other ranks: blocks until rank 0's shard arrives
ScatterRecv(p) ==
    /\ p # 0
    /\ pc[p] = "scatter"
    /\ \E msg \in scattered :
          /\ msg.to = p
          /\ scattered' = scattered \ {msg}
          /\ trajectories' = [trajectories EXCEPT ![p] = msg.shard]
    /\ Goto(p, "main")
    /\ UNCHANGED <<cfgVars, assignVars, globbed, shards, idx, pi, li, bound,
                   assignments, distances, n_frames, arrived, gathered, merge, output>>

\* lines 166-168 and 87-96: the call of main evaluates li and pi, which are bound
\* only by the branch of line 155-157
EnterMain(p) ==
    /\ pc[p] = "main"
    /\ IF ~bound[p] THEN Crash(p, "NameError") ELSE Goto(p, "loop")
    /\ UNCHANGED <<cfgVars, assignVars, globbed, shards, scattered, trajectories,
                   idx, pi, li, bound, assignments, distances, n_frames, arrived,
                   gathered, merge, output>>

\* ------------------------------------------------------- the assign loop
LoopDone(p) == Len(assignments[p]) = Len(trajectories[p])

\* the file the next iteration of the loop at line 97 loads
NextFile(p) == trajectories[p][Len(assignments[p]) + 1]

\* lines 97-102: one iteration of the loop
AssignFile(p) ==
    /\ pc[p] = "loop"
    /\ ~LoopDone(p)
    /\ LET r == Assign(TrajRmsds(NextFile(p)))
       IN /\ assignments' = [assignments EXCEPT ![p] = Append(@, r.assignment)]
          /\ distances' = [distances EXCEPT ![p] = Append(@, r.distance)]
          /\ n_frames' = [n_frames EXCEPT ![p] = Append(@, frames[NextFile(p)])]
    /\ UNCHANGED <<pc, err>>
    /\ UNCHANGED <<cfgVars, assignVars, globbed, shards, scattered, trajectories,
                   idx, pi, li, bound, arrived, gathered, merge, output>>

\* a variant in which the failing process enters the barrier on its way out
LoadFailInBarrier(p) ==
    /\ pc[p] = "loop"
    /\ ~LoopDone(p)
    /\ Crash(p, "LoadError")
    /\ arrived' = [arrived EXCEPT ![p] = TRUE]
    /\ UNCHANGED <<cfgVars, assignVars, globbed, shards, scattered, trajectories,
                   idx, pi, li, bound, assignments, distances, n_frames,
                   gathered, merge, output>>

\* line 98: md.load raises (an unreadable trajectory); nothing catches it
LoadFail(p) ==
    /\ pc[p] = "loop"
    /\ ~LoopDone(p)
    /\ Crash(p, "LoadError")
    /\ UNCHANGED <<cfgVars, assignVars, globbed, shards, scattered, trajectories,
                   idx, pi, li, bound, assignments, distances, n_frames, arrived,
                   gathered, merge, output>>

\* line 104: the process enters COMM.Barrier()
BarrierEnter(p) ==
    /\ pc[p] = "loop"
    /\ LoopDone(p)
    /\ arrived' = [arrived EXCEPT ![p] = TRUE]
    /\ Goto(p, "barrier")
    /\ UNCHANGED <<cfgVars, assignVars, globbed, shards, scattered, trajectories,
                   idx, pi, li, bound, assignments, distances, n_frames, gathered,
                   merge, output>>

\* a variant of the barrier that lets a process through on its own arrival
BarrierOpenAlone(p) == arrived[p]

\* COMM.Barrier() returns once every process of COMM_WORLD has entered it
BarrierOpen(p) == \A q \in Procs : arrived[q]

\* line 104: the process leaves COMM.Barrier()
BarrierPass(p) ==
    /\ pc[p] = "barrier"
    /\ BarrierOpen(p)
    /\ Goto(p, "gather")
    /\ UNCHANGED <<cfgVars, assignVars, globbed, shards, scattered, trajectories,
                   idx, pi, li, bound, assignments, distances, n_frames, arrived,
                   gathered, merge, output>>

\* what one process hands to the five gathers of line 105
Contribution(p) ==
    [from |-> p, assignments |-> assignments[p], distances |-> distances[p],
     n_frames |-> n_frames[p], n_traj |-> Len(trajectories[p]),
     trajectories |-> trajectories[p]]

\* line 105 on a rank other than 0: send, then main returns (line 107 is false)
GatherSend(p) ==
    /\ p # 0
    /\ pc[p] = "gather"
    /\ gathered' = gathered \cup {Contribution(p)}
    /\ Goto(p, "done")
    /\ UNCHANGED <<cfgVars, assignVars, globbed, shards, scattered, trajectories,
                   idx, pi, li, bound, assignments, distances, n_frames, arrived,
                   merge, output>>

\* the contribution of rank q among those rank 0 holds
From(all, q) == CHOOSE c \in all : c.from = q

\* line 105 on rank 0: each gather returns the list of contributions in rank order
GatherRoot ==
    /\ pc[0] = "gather"
    /\ \A q \in Procs \ {0} : \E c \in gathered : c.from = q
    /\ LET all == gathered \cup {Contribution(0)}
       IN merge' = [merge EXCEPT
             !.all_assignments = [q \in 1..SIZE |-> From(all, q - 1).assignments],
             !.all_distances = [q \in 1..SIZE |-> From(all, q - 1).distances],
             !.all_n_frames = [q \in 1..SIZE |-> From(all, q - 1).n_frames],
             !.all_n_traj = [q \in 1..SIZE |-> From(all, q - 1).n_traj],
             !.all_trajectory_files = [q \in 1..SIZE |-> From(all, q - 1).trajectories]]
    /\ Goto(0, "merge")
    /\ UNCHANGED <<cfgVars, assignVars, globbed, shards, scattered, trajectories,
                   idx, pi, li, bound, assignments, distances, n_frames, arrived,
                   gathered, output>>

\* ------------------------------------------------------- merge and write
RECURSIVE SumOfSeq(_)
SumOfSeq(s) == IF s = <<>> THEN 0 ELSE Head(s) + SumOfSeq(Tail(s))

\* Python's order on lists, which numpy uses on an array of list objects
RECURSIVE LexLeq(_, _)
LexLeq(a, b) ==
    IF a = <<>> THEN TRUE
    ELSE IF b = <<>> THEN FALSE
    ELSE IF Head(a) < Head(b) THEN TRUE
    ELSE IF Head(a) > Head(b) THEN FALSE
    ELSE LexLeq(Tail(a), Tail(b))

LexMax(ll) == CHOOSE x \in Range(ll) : \A y \in Range(ll) : LexLeq(y, x)

Rectangular(ll) == \A a, b \in 1..Len(ll) : Len(ll[a]) = Len(ll[b])

\* np.max(np.max(all_n_frames)), line 109: the outcomes numpy can produce.  Lists of
\* one length make a 2-d array, whose maximum is the largest entry (and a
\* ValueError when the array has no entry).  Lists of different lengths make, by the
\* numpy version, a ValueError or an array of list objects, whose maximum is the
\* greatest list in Python's order; the outer max is the largest entry of that list.
NpMaxMax(ll) ==
    IF Rectangular(ll)
    THEN IF Chain(ll) = <<>>
         THEN {[raised |-> TRUE, value |-> 0]}
         ELSE {[raised |-> FALSE, value |-> MaxOfSeq(Chain(ll))]}
    ELSE {[raised |-> TRUE, value |-> 0],
          [raised |-> FALSE, value |-> MaxOfSeq(LexMax(ll))]}

\* a variant that leaves the flattened results in gather order
OrderIdentity(files, listing) == [k \in 1..Len(listing) |-> k - 1]

\* line 113: order = [all_trajectory_files.index(i) for i in glob.glob(...)]
Order(files, listing) == [k \in 1..Len(listing) |-> ListIndex(files, listing[k])]

\* lines 109-115
Merge ==
    /\ pc[0] = "merge"
    /\ \E mx \in NpMaxMax(merge.all_n_frames) :
          IF mx.raised
          THEN Crash(0, "ValueError") /\ UNCHANGED merge
          ELSE /\ Goto(0, "fill")
               /\ LET n == SumOfSeq(merge.all_n_traj)
                      files == Chain(merge.all_trajectory_files)
                  IN merge' = [merge EXCEPT
                        !.n_trajectories = n,
                        !.max_frames = mx.value,
                        !.A = [r \in 1..n |-> [c \in 1..mx.value |-> -1]],
                        !.AD = [r \in 1..n |-> [c \in 1..mx.value |-> -1]],
                        !.all_trajectory_files = files,
                        !.order = Order(files, dirList),
                        !.all_assignments = Chain(merge.all_assignments),
                        !.all_distances = Chain(merge.all_distances)]
    /\ UNCHANGED <<cfgVars, assignVars, globbed, shards, scattered, trajectories,
                   idx, pi, li, bound, assignments, distances, n_frames, arrived,
                   gathered, output>>

\* the length of row[:stop] for a row of length len
SliceLen(stop, len) ==
    IF stop < 0 THEN (IF stop + len < 0 THEN 0 ELSE stop + len) ELSE Min2(stop, len)

\* numpy assigns an array of srcLen values to a slice of dstLen cells only when the
\* lengths agree or the array has one value (which every cell then takes)
BroadcastOk(srcLen, dstLen) == srcLen = dstLen \/ srcLen = 1

\* the stop of the slice in A[j, :len(all_assignments[i])-1], lines 119-120
FillStop(src) == Len(src) - 1

\* row[:stop] = src, for a slice the assignment is valid for
SetSlice(row, src) ==
    LET d == SliceLen(FillStop(src), Len(row))
    IN [c \in 1..Len(row) |->
          IF c <= d THEN (IF Len(src) = 1 THEN src[1] ELSE src[c]) ELSE row[c]]

\* lines 118-120: one iteration of the loop over order
FillRow ==
    /\ pc[0] = "fill"
    /\ merge.j < Len(merge.order)
    /\ LET j == merge.j + 1
           i == merge.order[j] + 1
           a == merge.all_assignments[i]
           d == merge.all_distances[i]
       IN IF BroadcastOk(Len(a), SliceLen(FillStop(a), merge.max_frames))
          THEN /\ merge' = [merge EXCEPT !.A[j] = SetSlice(@, a),
                                         !.AD[j] = SetSlice(@, d),
                                         !.j = j]
               /\ UNCHANGED <<pc, err>>
          ELSE Crash(0, "ValueError") /\ UNCHANGED merge
    /\ UNCHANGED <<cfgVars, assignVars, globbed, shards, scattered, trajectories,
                   idx, pi, li, bound, assignments, distances, n_frames, arrived,
                   gathered, output>>

\* lines 122-126: both matrices are saved and 'Done!' is printed
Write ==
    /\ pc[0] = "fill"
    /\ merge.j = Len(merge.order)
    /\ output' = [written |-> TRUE, A |-> merge.A, AD |-> merge.AD,
                  completed_trajs |-> [r \in 1..merge.n_trajectories |-> TRUE],
                  done |-> TRUE, writes |-> output.writes + 1]
    /\ Goto(0, "done")
    /\ UNCHANGED <<cfgVars, assignVars, globbed, shards, scattered, trajectories,
                   idx, pi, li, bound, assignments, distances, n_frames, arrived,
                   gathered, merge>>

\* ------------------------------------------------------- specifications
\* the orders in which a directory of n files may be listed
Listings(n) == {s \in [1..n -> 1..n] : \A a, b \in 1..n : s[a] = s[b] => a = b}

\* every process at the top of the script
ProcInit ==
    /\ pc = [p \in Procs |-> "start"]
    /\ err = [p \in Procs |-> "none"]
    /\ globbed = [p \in Procs |-> FALSE]
    /\ shards = <<>>
    /\ scattered = {}
    /\ trajectories = [p \in Procs |-> <<>>]
    /\ idx = [p \in Procs |-> <<>>]
    /\ pi = [p \in Procs |-> <<>>]
    /\ li = [p \in Procs |-> <<>>]
    /\ bound = [p \in Procs |-> FALSE]
    /\ assignments = [p \in Procs |-> <<>>]
    /\ distances = [p \in Procs |-> <<>>]
    /\ n_frames = [p \in Procs |-> <<>>]
    /\ arrived = [p \in Procs |-> FALSE]
    /\ gathered = {}
    /\ merge = [all_assignments |-> <<>>, all_distances |-> <<>>,
                all_n_frames |-> <<>>, all_n_traj |-> <<>>,
                all_trajectory_files |-> <<>>, n_trajectories |-> 0,
                max_frames |-> 0, order |-> <<>>, A |-> <<>>, AD |-> <<>>, j |-> 0]
    /\ output = [written |-> FALSE, A |-> <<>>, AD |-> <<>>, completed_trajs |-> <<>>,
                 done |-> FALSE, writes |-> 0]

NoAssignRun ==
    /\ rmsds = <<>>
    /\ result = [called |-> FALSE, assignment |-> <<>>, distance |-> <<>>]

\* a complete command line, over every directory content within the bounds
Init ==
    /\ SIZE \in 1..MaxProcs
    /\ options = [dir |-> TRUE, topology |-> TRUE, indices |-> TRUE]
    /\ piFile = 0..(NAtoms - 2)
    /\ liFile = {NAtoms - 1}
    /\ \E n \in 0..MaxFiles :
          /\ dirList \in Listings(n)
          /\ frames \in [1..n -> 1..MaxFrames]
    /\ ProcInit
    /\ NoAssignRun

\* every command line over a directory of two one-frame files
InitConfig ==
    /\ SIZE \in 1..MaxProcs
    /\ options \in [dir : BOOLEAN, topology : BOOLEAN, indices : BOOLEAN]
    /\ IF options.indices
       THEN /\ piFile \in SUBSET (0..(NAtoms - 1)) \ {{}}
            /\ liFile \in SUBSET (0..(NAtoms - 1)) \ {{}}
            /\ piFile \cap liFile = {}
       ELSE piFile = {} /\ liFile = {}
    /\ dirList = <<1, 2>>
    /\ frames = [f \in 1..2 |-> 1]
    /\ ProcInit
    /\ NoAssignRun

Next ==
    \/ \E p \in Procs : Startup(p)
    \/ \E p \in Procs : Setup(p)
    \/ ScatterRoot
    \/ \E p \in Procs : ScatterRecv(p)
    \/ \E p \in Procs : EnterMain(p)
    \/ \E p \in Procs : AssignFile(p)
    \/ \E p \in Procs : LoadFail(p)
    \/ \E p \in Procs : BarrierEnter(p)
    \/ \E p \in Procs : BarrierPass(p)
    \/ \E p \in Procs : GatherSend(p)
    \/ GatherRoot
    \/ Merge
    \/ FillRow
    \/ Write

Spec == Init /\ [][Next]_vars

SpecConfig == InitConfig /\ [][Next]_vars

\* assign alone, over every rmsds matrix within the bounds
InitAssign ==
    /\ SIZE = 1
    /\ options = [dir |-> TRUE, topology |-> TRUE, indices |-> TRUE]
    /\ piFile = {}
    /\ liFile = {}
    /\ dirList = <<>>
    /\ frames = <<>>
    /\ ProcInit
    /\ \E g \in 1..MaxGens, n \in 1..MaxFrames :
          rmsds \in [1..g -> [1..n -> 0..MaxDist]]
    /\ result = [called |-> FALSE, assignment |-> <<>>, distance |-> <<>>]

\* lines 79-83: one call of assign
CallAssign ==
    /\ ~result.called
    /\ LET r == Assign(rmsds)
       IN result' = [called |-> TRUE, assignment |-> r.assignment,
                     distance |-> r.distance]
    /\ UNCHANGED <<cfgVars, rmsds, pc, err, globbed, shards, scattered, trajectories,
                   idx, pi, li, bound, assignments, distances, n_frames, arrived,
                   gathered, merge, output>>

NextAssign == CallAssign

SpecAssign == InitAssign /\ [][NextAssign]_vars

\* ----------------------------------------------------------- properties
\* the result assign returns for trajectory file name
ResultOf(name) == Assign(TrajRmsds(name))

\* rank 0 has entered the merge block of lines 107-126
MergeStarted ==
    \/ pc[0] \in {"merge", "fill", "done"}
    \/ pc[0] = "crashed" /\ err[0] = "ValueError"

PastBarrier(p) == pc[p] \in {"gather", "merge", "fill", "done"}

\* C1: once rank 0 has built the shards, there are SIZE of them, shard w holds the
\* files at positions w, w+SIZE, w+2*SIZE, ... of the file list in list order, every
\* file of the list lies in exactly one shard at exactly one place, two shard sizes
\* differ by at most one, and the scatter hands shard p to process p.
C1_Partition ==
    shards # <<>> =>
       /\ Len(shards) = SIZE
       /\ \A w \in 1..SIZE : \A m \in 1..Len(shards[w]) :
             /\ (w - 1) + (m - 1) * SIZE + 1 <= Len(dirList)
             /\ shards[w][m] = dirList[(w - 1) + (m - 1) * SIZE + 1]
       /\ \A k \in 1..Len(dirList) :
             Cardinality({wm \in (1..SIZE) \X (1..Len(dirList)) :
                             /\ wm[2] <= Len(shards[wm[1]])
                             /\ shards[wm[1]][wm[2]] = dirList[k]}) = 1
       /\ \A w, v \in 1..SIZE : Len(shards[w]) - Len(shards[v]) <= 1
       /\ \A p \in Procs :
             pc[p] \in {"main", "loop", "barrier", "gather", "merge", "fill", "done"}
                => trajectories[p] = shards[p + 1]

\* C1 witness: three files were split over two processes and both hold their shard
C1_Witness ==
    /\ SIZE = 2
    /\ Len(dirList) = 3
    /\ \A p \in Procs : pc[p] = "loop"
    /\ Len(trajectories[0]) = 2
    /\ Len(trajectories[1]) = 1

\* the result the merge loop assigns to output row j (Python row j - 1)
RowAssignment(j) == merge.all_assignments[merge.order[j] + 1]
RowDistance(j) == merge.all_distances[merge.order[j] + 1]
RowFile(j) == merge.all_trajectory_files[merge.order[j] + 1]

C3_Padding ==
    output.written =>
       \A j \in 1..Len(dirList) :
          LET n == frames[dirList[j]]
              r == ResultOf(dirList[j])
          IN n <= merge.max_frames =>
                \A c \in 1..merge.max_frames :
                   /\ c <= n => /\ output.A[j][c] = r.assignment[c]
                                /\ output.AD[j][c] = r.distance[c]
                   /\ c > n => /\ output.A[j][c] = -1
                               /\ output.AD[j][c] = -1

\* C4: assign returns, for every frame f, a generator index in [0, |G|) whose
\* distance to f is the returned distance, no generator is nearer, and every
\* generator of smaller index is strictly farther.
C4_Assign ==
    result.called =>
       /\ Len(result.assignment) = Len(rmsds[1])
       /\ Len(result.distance) = Len(rmsds[1])
       /\ \A f \in 1..Len(rmsds[1]) :
             LET a == result.assignment[f]
                 d == result.distance[f]
             IN /\ a \in 0..(Len(rmsds) - 1)
                /\ d = rmsds[a + 1][f]
                /\ \A g \in 1..Len(rmsds) : d <= rmsds[g][f]
                /\ \A g \in 1..a : rmsds[g][f] > d

\* C4 witness: two generators exactly equidistant from a frame that a third
\* distance does not beat, and assign has answered
C4_Witness ==
    /\ result.called
    /\ Len(rmsds) = 2
    /\ Len(rmsds[1]) = 2
    /\ rmsds[1][1] = rmsds[2][1]
    /\ rmsds[1][2] > rmsds[2][2]
    /\ result.assignment = <<0, 1>>

ConfigMissing == ~options.dir \/ ~options.topology

\* C5 as stated: with the directory or the topology argument missing, no process
\* globs the directory, loads a topology or touches a trajectory, and nothing is
\* written.
C5_ConfigAbort ==
    ConfigMissing =>
       /\ \A p \in Procs : ~globbed[p]
       /\ \A p \in Procs : pc[p] \in {"start", "setup", "crashed"}
       /\ ~output.written

\* C6 as stated: with the index files not both supplied, idx covers all atoms, the
\* alignment and scoring index lists are the full atom set, and every process
\* reaches the assignment loop without error.
C6_Degenerate ==
    (~ConfigMissing /\ ~options.indices) =>
       \A p \in Procs :
          /\ pc[p] \notin {"start", "setup", "crashed"} => idx[p] = PyRange(0, NAtoms)
          /\ err[p] # "NameError"
          /\ pc[p] = "loop" => /\ pi[p] = PyRange(0, NAtoms)
                               /\ li[p] = PyRange(0, NAtoms)

\* C7 as stated: for disjoint index sets, position k of idx holds a protein index
\* exactly when k is a local alignment index and a ligand index exactly when k is a
\* local scoring index.
C7_Remap ==
    \A p \in Procs :
       bound[p] =>
          \A k \in 1..Len(idx[p]) :
             /\ (k - 1) \in Range(pi[p]) <=> idx[p][k] \in piFile
             /\ (k - 1) \in Range(li[p]) <=> idx[p][k] \in liFile

\* C8: rank 0 enters the merge block only when every process has assigned every
\* file of its shard and entered the barrier; until then no process has handed a
\* result to the gather and nothing is written; the output is written at most once,
\* by rank 0, and exactly once when rank 0 finishes.
C8_Barrier ==
    /\ (MergeStarted \/ gathered # {} \/ output.written \/ \E p \in Procs : PastBarrier(p))
          => \A p \in Procs : /\ arrived[p]
                              /\ Len(assignments[p]) = Len(shards[p + 1])
                              /\ trajectories[p] = shards[p + 1]
    /\ MergeStarted => \A p \in Procs \ {0} : Contribution(p) \in gathered
    /\ output.writes <= 1
    /\ output.written <=> output.writes = 1
    /\ output.written <=> pc[0] = "done"
    /\ \A p \in Procs \ {0} : pc[p] = "done" => Contribution(p) \in gathered

\* C8 witness: rank 0 is filling rows while the other process, which had a
\* non-empty shard, has finished
C8_Witness ==
    /\ SIZE = 2
    /\ pc[0] = "fill"
    /\ pc[1] = "done"
    /\ Len(trajectories[1]) >= 1
    /\ Len(trajectories[0]) >= 1

\* C9: once a load fails on a rank other than 0, no process ever leaves the
\* barrier, rank 0 never reaches the gather or the merge, nothing is written and
\* 'Done!' is not printed; no other process is stopped by the failure.
C9_WorkerFailure ==
    \A w \in Procs \ {0} :
       err[w] = "LoadError" =>
          /\ ~output.written
          /\ ~output.done
          /\ output.writes = 0
          /\ gathered = {}
          /\ ~MergeStarted
          /\ \A p \in Procs : ~PastBarrier(p)
          /\ \A p \in Procs \ {w} : err[p] \in {"none", "LoadError"}

\* C9 witness: the load failed on rank 1 and rank 0, having assigned its whole
\* non-empty shard, waits in the barrier
C9_Witness ==
    /\ SIZE >= 2
    /\ err[1] = "LoadError"
    /\ pc[0] = "barrier"
    /\ Len(assignments[0]) >= 1
    /\ \A p \in Procs \ {1} : pc[p] = "barrier"

\* C10 as stated, for the runs that have ended: with at least one file and no
\* failed load, every process has passed the barrier and the gather, and rank 0 has
\* written two N x max_frames matrices (max_frames the largest frame count) and
\* printed 'Done!'.
C10_Termination ==
    (/\ Len(dirList) >= 1
     /\ \A p \in Procs : err[p] # "LoadError"
     /\ \A p \in Procs : pc[p] \in {"done", "crashed"})
       => /\ \A p \in Procs : pc[p] = "done"
          /\ output.written
          /\ output.done
          /\ Len(output.A) = Len(dirList)
          /\ Len(output.AD) = Len(dirList)
          /\ \A j \in 1..Len(dirList) :
                /\ Len(output.A[j]) = MaxOfSeq([k \in 1..Len(dirList) |-> frames[k]])
                /\ Len(output.AD[j]) = Len(output.A[j])

====
